---- MODULE Spec2Model ----
(***************************************************************************)
(* LibjingleStreamTransport (remoting/protocol/libjingle_transport_factory) *)
(* as a state machine: one transport object, the objects it owns (port     *)
(* allocator, P2P channel, PseudoTcp adapter, channel authenticator), the  *)
(* asynchronous completions of the adapter and of the authenticator, and   *)
(* what the caller and the event handler observe.                          *)
(*                                                                         *)
(* A handler of the source is an operator from a world record to a world   *)
(* record; an action applies one handler, with everything it calls, to the *)
(* current world.  DCHECKs are fatal when dcheck_on (a debug build) and    *)
(* compiled out otherwise.                                                 *)
(***************************************************************************)
EXTENDS Integers, Sequences, FiniteSets, TLC

\* ---------------------------------------------------------------- bounds
MaxCalls == 3         \* Initialize, Connect and AddRemoteCandidate calls in one run
MaxLocal == 2         \* local candidates surfaced in one run
MaxTransports == 3     \* transports of one factory alive at a time
MaxCallbacks == 2      \* completion callbacks the tracker's callers have
MaxOpen == 2           \* database connections open at a time

\* ------------------------------------------------------ program constants
NULL == 0
kTcpAckDelayMilliseconds == 10
kTcpReceiveBufferSize == 256 * 1024
kTcpSendBufferSize == kTcpReceiveBufferSize + 30 * 1024

PORTALLOCATOR_DISABLE_TCP == "DISABLE_TCP"
PORTALLOCATOR_DISABLE_STUN == "DISABLE_STUN"
PORTALLOCATOR_DISABLE_RELAY == "DISABLE_RELAY"

\* ------------------------------------------------------------ input sets
Names == {"", "video"}
PortRanges == {<<12400, 12409>>}
Configs == {[nat_traversal |-> n, min_port |-> r[1], max_port |-> r[2]] :
              n \in BOOLEAN, r \in PortRanges}
Handler == 1                          \* the one Transport::EventHandler
Handlers == {NULL, Handler}
ConnectResults == {"ERR_IO_PENDING", "OK", "ERR_FAILED"}
Completions == {"OK", "ERR_FAILED"}
\* What the caller does while its ConnectedCallback runs.
CallbackActs == {"keep", "release_socket", "delete_transport"}

\* Calls are numbered; a Connect's callback and adapter, and an Initialize's
\* authenticator, carry the number of the call that brought them.
CallIds == 1 .. MaxCalls

VARIABLES
  dcheck_on,       \* build kind: DCHECK compiled in
  crash,           \* "none", or how the process left defined behaviour
  life,            \* the transport object: "live", "dead"
  destroyed_in,    \* lifecycle state the transport was destroyed in ("" = not yet)
  name_, config_, event_handler_, callback_, authenticator_,
  port_allocator_, channel_, socket_,
  adapters,        \* the PseudoTcpAdapter objects created by Connect
  auths,           \* the ChannelAuthenticator objects passed to Initialize
  delivered,       \* every run of a ConnectedCallback, in order
  handler_log,     \* every EventHandler notification, in order
  ncalls,          \* calls made so far
  factory,         \* the LibjingleTransportFactory
  transports,      \* the transports it has created, by address
  returned,        \* the last call made on the factory and what it returned
  context,         \* the execution context a call runs on
  tracker          \* the DatabaseTracker, its tracker database and its files

vars == <<dcheck_on, crash, life, destroyed_in, name_, config_, event_handler_,
          callback_, authenticator_, port_allocator_, channel_, socket_,
          adapters, auths, delivered, handler_log, ncalls,
          factory, transports, returned, context, tracker>>

\* The current world as one record: the handlers below map worlds to worlds.
World ==
  [dcheck_on |-> dcheck_on, crash |-> crash, life |-> life,
   destroyed_in |-> destroyed_in, name_ |-> name_, config_ |-> config_,
   event_handler_ |-> event_handler_, callback_ |-> callback_,
   authenticator_ |-> authenticator_, port_allocator_ |-> port_allocator_,
   channel_ |-> channel_, socket_ |-> socket_, adapters |-> adapters,
   auths |-> auths, delivered |-> delivered, handler_log |-> handler_log,
   ncalls |-> ncalls, context |-> context]

NoAdapter == [st |-> "none", tcp |-> "none", auth |-> "none", holder |-> "none",
              send_buffer |-> 0, receive_buffer |-> 0, no_delay |-> FALSE,
              ack_delay |-> 0]
NoAuth == [st |-> "none", sock |-> NULL, calls |-> 0]
\* An empty scoped_ptr<PortAllocator> / scoped_ptr<P2PTransportChannel>.
NoAllocator == [kind |-> "none", flags |-> {}, min_port |-> 0, max_port |-> 0]
NoChannel == [name |-> "", allocator |-> "none", connect_called |-> FALSE,
              signaling_ready |-> FALSE, remote |-> <<>>]

\* ------------------------------------------------------ leaving the rails
\* F of the value of e (e is evaluated once).
Let(e, F(_)) == CHOOSE v \in {F(x) : x \in {e}} : TRUE

Ok(w) == w.crash = "none"

\* The next statement F after e, unless the process is already dead.
Then(e, F(_)) == Let(e, LAMBDA x : IF Ok(x) THEN F(x) ELSE x)

Crash(w, how) == [w EXCEPT !.crash = how]

\* DCHECK(cond): fatal in a build with DCHECKs, nothing otherwise.
DCHECK(w, cond) == IF w.dcheck_on /\ ~cond THEN Crash(w, "dcheck") ELSE w

\* A member access through |this|: undefined once the object is freed.
Touch(w) == IF w.life = "dead" THEN Crash(w, "use_after_free") ELSE w

\* NonThreadSafe::CalledOnValidThread: the call runs on the context the
\* transport was constructed on.
CalledOnValidThread(w) == w.context = "constructed"

\* Mutant of ThreadChecked: the context is not looked at.
ThreadChecked_AnyContext(w) ==
  IF w.life = "dead" THEN Crash(w, "use_after_free") ELSE w

\* DCHECK(CalledOnValidThread());
ThreadChecked(w) ==
  IF w.life = "dead" THEN Crash(w, "use_after_free")
  ELSE DCHECK(w, CalledOnValidThread(w))

\* Once the process has left defined behaviour its objects are gone: what is
\* left is how it died and what the caller and the event handler saw before.
Remains(w) ==
  Let(w, LAMBDA x :
    IF Ok(x) THEN x
    ELSE [x EXCEPT !.name_ = "", !.event_handler_ = NULL, !.callback_ = NULL,
                   !.authenticator_ = NULL, !.port_allocator_ = NoAllocator,
                   !.channel_ = NoChannel, !.socket_ = NULL,
                   !.adapters = [s \in CallIds |-> NoAdapter],
                   !.auths = [a \in CallIds |-> NoAuth],
                   !.life = "dead", !.ncalls = 0])

Becomes(w) ==
  \E v \in {Remains(w)} :
     /\ dcheck_on' = v.dcheck_on /\ crash' = v.crash /\ life' = v.life
     /\ destroyed_in' = v.destroyed_in /\ name_' = v.name_ /\ config_' = v.config_
     /\ event_handler_' = v.event_handler_ /\ callback_' = v.callback_
     /\ authenticator_' = v.authenticator_ /\ port_allocator_' = v.port_allocator_
     /\ channel_' = v.channel_ /\ socket_' = v.socket_ /\ adapters' = v.adapters
     /\ auths' = v.auths /\ delivered' = v.delivered
     /\ handler_log' = v.handler_log /\ ncalls' = v.ncalls
     /\ UNCHANGED <<factory, transports, returned, context, tracker>>

\* --------------------------------------------------------- the transport
is_connected(w) == w.callback_ = NULL

name(w) == w.name_

\* The lifecycle state of section 4.2, read off the fields.
StateOf(w) ==
  IF w.callback_ # NULL
    THEN IF w.socket_ # NULL THEN "Connecting" ELSE "Authenticating"
  ELSE IF w.delivered # <<>>
    THEN IF w.delivered[Len(w.delivered)].socket # NULL THEN "Connected" ELSE "Failed"
  ELSE IF w.name_ # "" THEN "Initialized" ELSE "Uninitialized"

\* The owned sub-objects the transport still holds.
Owned(w) ==
  {r \in {"port_allocator", "channel", "socket", "authenticator"} :
     \/ r = "port_allocator" /\ w.port_allocator_ # NoAllocator
     \/ r = "channel" /\ w.channel_ # NoChannel
     \/ r = "socket" /\ w.socket_ # NULL
     \/ r = "authenticator" /\ w.authenticator_ # NULL}

RECURSIVE OnChannelDestroyed(_), Destructor(_), DeleteTransport(_),
          DestroyAdapter(_, _), DestroyAuthenticator(_, _)

\* ~PseudoTcpAdapter: the adapter owns the TransportChannelSocketAdapter, whose
\* destructor runs the callback set by SetOnDestroyedCallback; a pending connect
\* completion dies with the adapter.
DestroyAdapter(w, s) ==
  Then(w, LAMBDA a :
    IF s = NULL THEN a
    ELSE IF a.adapters[s].st # "live" THEN a
    ELSE OnChannelDestroyed(
           [a EXCEPT !.adapters[s].st = "destroyed", !.adapters[s].holder = "none"]))

\* ~ChannelAuthenticator: the raw socket it still holds and its pending
\* handshake die with it.
DestroyAuthenticator(w, auth) ==
  Then(w, LAMBDA a :
    IF auth = NULL THEN a
    ELSE IF a.auths[auth].st \in {"none", "destroyed"} THEN a
    ELSE DestroyAdapter(
           [a EXCEPT !.auths[auth].st = "destroyed", !.auths[auth].sock = NULL],
           a.auths[auth].sock))

\* Mutant of NotifyDeleted: the destructor tells the event handler nothing.
NotifyDeleted_Silent(w) ==
  IF w.event_handler_ = NULL THEN Crash(w, "null_deref: event_handler_") ELSE w

\* event_handler_->OnTransportDeleted(this)
NotifyDeleted(w) ==
  IF w.event_handler_ = NULL THEN Crash(w, "null_deref: event_handler_")
  ELSE [w EXCEPT !.handler_log =
          Append(@, [type |-> "OnTransportDeleted", candidate |-> NULL])]

\* Mutant of Destructor: authenticator_ is a raw pointer that is never deleted.
Destructor_LeaksAuthenticator(w) ==
  Then(w, LAMBDA a :
  Then(DCHECK(a, a.event_handler_ # NULL), LAMBDA b :
  Then(NotifyDeleted(b), LAMBDA c :
  Then(DCHECK(c, ~is_connected(c) \/ c.socket_ = NULL), LAMBDA d :
  Then(DestroyAdapter([d EXCEPT !.life = "destructing",
                                !.destroyed_in = StateOf(d),
                                !.socket_ = NULL], d.socket_), LAMBDA e :
  [e EXCEPT !.channel_ = NoChannel, !.port_allocator_ = NoAllocator,
            !.authenticator_ = NULL, !.life = "dead"])))))

\* ~LibjingleStreamTransport, then the members in reverse order of declaration:
\* socket_, channel_, port_allocator_, authenticator_ (callback_ outlives them).
Destructor(w) ==
  Then(w, LAMBDA a :
  Then(DCHECK(a, a.event_handler_ # NULL), LAMBDA b :
  Then(NotifyDeleted(b), LAMBDA c :
  Then(DCHECK(c, ~is_connected(c) \/ c.socket_ = NULL), LAMBDA d :
  Then(DestroyAdapter([d EXCEPT !.life = "destructing",
                                !.destroyed_in = StateOf(d),
                                !.socket_ = NULL], d.socket_), LAMBDA e :
  Then(DestroyAuthenticator([e EXCEPT !.channel_ = NoChannel,
                                      !.port_allocator_ = NoAllocator,
                                      !.authenticator_ = NULL],
                            e.authenticator_), LAMBDA f :
  [f EXCEPT !.life = "dead"]))))))

\* delete on the transport (|delete this|, or the owner's scoped_ptr).
DeleteTransport(w) ==
  Then(w, LAMBDA a :
    IF a.life # "live" THEN Crash(a, "double_delete") ELSE Destructor(a))

\* Mutant of OnChannelDestroyed: the transport is never deleted.
OnChannelDestroyed_NeverDeletes(w) ==
  Then(w, LAMBDA a : ThreadChecked(a))

OnChannelDestroyed(w) ==
  Then(w, LAMBDA a :
  Then(ThreadChecked(a), LAMBDA b :
    IF is_connected(b) THEN DeleteTransport(b) ELSE b))

\* The body of the caller's ConnectedCallback: it keeps what it was given, or
\* releases the delivered socket at once, or deletes the transport.
RunCallback(w, socket, act) ==
  Then(w, LAMBDA a :
  Then([a EXCEPT
          !.delivered = Append(@, [cb |-> a.callback_, socket |-> socket,
                                   owned |-> Owned(a)]),
          !.adapters = IF socket # NULL
                         THEN [@ EXCEPT ![socket].holder = "caller"] ELSE @],
       LAMBDA b :
         CASE act = "release_socket" -> DestroyAdapter(b, socket)
           [] act = "delete_transport" -> DeleteTransport(b)
           [] OTHER -> b))

\* Mutant of NotifyConnected: callback_.Reset() is missing.
NotifyConnected_NoReset(w, socket, act) ==
  Then(w, LAMBDA a :
  Then(ThreadChecked(a), LAMBDA b :
  Then(DCHECK(b, ~is_connected(b)), LAMBDA c :
    IF c.callback_ = NULL THEN Crash(c, "null_deref: callback_")
    ELSE RunCallback(c, socket, act))))

NotifyConnected(w, socket, act) ==
  Then(w, LAMBDA a :
  Then(ThreadChecked(a), LAMBDA b :
  Then(DCHECK(b, ~is_connected(b)), LAMBDA c :
  Then(IF c.callback_ = NULL THEN Crash(c, "null_deref: callback_")
       ELSE RunCallback(c, socket, act), LAMBDA d :
  Then(Touch(d), LAMBDA e :
  [e EXCEPT !.callback_ = NULL])))))

\* Mutant of NotifyConnectFailed: channel_.reset() is missing.
NotifyConnectFailed_KeepsChannel(w, act) ==
  Then(w, LAMBDA a :
  Then(Touch(a), LAMBDA b :
  Then(DestroyAdapter([b EXCEPT !.socket_ = NULL], b.socket_), LAMBDA c :
  Then(Touch(c), LAMBDA d :
  Then(DestroyAuthenticator([d EXCEPT !.authenticator_ = NULL],
                            d.authenticator_), LAMBDA e :
  NotifyConnected(e, NULL, act))))))

NotifyConnectFailed(w, act) ==
  Then(w, LAMBDA a :
  Then(Touch(a), LAMBDA b :
  Then(DestroyAdapter([b EXCEPT !.socket_ = NULL], b.socket_), LAMBDA c :
  Then(Touch(c), LAMBDA d :
  Then(DestroyAuthenticator([d EXCEPT !.channel_ = NoChannel,
                                      !.authenticator_ = NULL],
                            d.authenticator_), LAMBDA e :
  NotifyConnected(e, NULL, act))))))

\* ChannelAuthenticator::SecureAndAuthenticate(socket, done): the authenticator
\* takes the raw socket and starts its handshake; a handshake already pending
\* on it is dropped with its socket.
SecureAndAuthenticate(w, auth, s) ==
  Then(w, LAMBDA a :
  Then(DestroyAdapter([a EXCEPT !.auths[auth].sock = NULL], a.auths[auth].sock),
       LAMBDA b :
         [b EXCEPT !.auths[auth] = [st |-> "pending", sock |-> s,
                                    calls |-> a.auths[auth].calls + 1],
                   !.adapters[s].holder = "authenticator",
                   !.adapters[s].auth = "pending"]))

\* Mutant of OnTcpConnected: a failed connect returns without notifying.
OnTcpConnected_NoNotifyOnFailure(w, result, act) ==
  Then(w, LAMBDA a :
  Then(ThreadChecked(a), LAMBDA b :
    IF result # "OK" THEN b
    ELSE IF b.authenticator_ = NULL THEN Crash(b, "null_deref: authenticator_")
    ELSE SecureAndAuthenticate([b EXCEPT !.socket_ = NULL],
                               b.authenticator_, b.socket_)))

\* Mutant of OnTcpConnected: the connected adapter is delivered as it is,
\* without authentication.
OnTcpConnected_NeverAuthenticates(w, result, act) ==
  Then(w, LAMBDA a :
  Then(ThreadChecked(a), LAMBDA b :
    IF result # "OK" THEN NotifyConnectFailed(b, act)
    ELSE NotifyConnected([b EXCEPT !.socket_ = NULL], b.socket_, act)))

\* Mutant of OnTcpConnected: the authenticator gets socket_.get(), and socket_
\* keeps the adapter.
OnTcpConnected_KeepsSocket(w, result, act) ==
  Then(w, LAMBDA a :
  Then(ThreadChecked(a), LAMBDA b :
    IF result # "OK" THEN NotifyConnectFailed(b, act)
    ELSE IF b.authenticator_ = NULL THEN Crash(b, "null_deref: authenticator_")
    ELSE SecureAndAuthenticate(b, b.authenticator_, b.socket_)))

\* Mutant of OnTcpConnected: the result is not looked at.
OnTcpConnected_IgnoresResult(w, result, act) ==
  Then(w, LAMBDA a :
  Then(ThreadChecked(a), LAMBDA b :
    IF b.authenticator_ = NULL THEN Crash(b, "null_deref: authenticator_")
    ELSE SecureAndAuthenticate([b EXCEPT !.socket_ = NULL],
                               b.authenticator_, b.socket_)))

OnTcpConnected(w, result, act) ==
  Then(w, LAMBDA a :
  Then(ThreadChecked(a), LAMBDA b :
    IF result # "OK" THEN NotifyConnectFailed(b, act)
    ELSE IF b.authenticator_ = NULL THEN Crash(b, "null_deref: authenticator_")
    ELSE SecureAndAuthenticate([b EXCEPT !.socket_ = NULL],
                               b.authenticator_, b.socket_)))

\* Mutant of OnAuthenticationDone: a failed handshake returns without notifying.
OnAuthenticationDone_DropsFailure(w, error, socket, act) ==
  IF error # "OK"
    THEN DestroyAdapter(w, socket)
    ELSE NotifyConnected(w, socket, act)

\* Mutant of OnAuthenticationDone: the error is not looked at.
OnAuthenticationDone_IgnoresError(w, error, socket, act) ==
  NotifyConnected(w, socket, act)

\* |socket| is the by-value scoped_ptr parameter: what is left in it is
\* destroyed when the handler returns.
OnAuthenticationDone(w, error, socket, act) ==
  IF error # "OK"
    THEN DestroyAdapter(NotifyConnectFailed(w, act), socket)
    ELSE NotifyConnected(w, socket, act)

Initialize(w, nm, config, event_handler, authenticator) ==
  Then(w, LAMBDA a :
  Then(ThreadChecked(a), LAMBDA b :
  Then(DCHECK(b, nm # ""), LAMBDA c :
  Then(DCHECK(c, event_handler # NULL), LAMBDA d :
  Then(DCHECK(d, d.name_ = ""), LAMBDA e :
  DestroyAuthenticator([e EXCEPT !.name_ = nm, !.config_ = config,
                                 !.event_handler_ = event_handler,
                                 !.authenticator_ = authenticator],
                       e.authenticator_))))))

\* Mutant of PortAllocatorFlags: relay stays enabled without NAT traversal.
PortAllocatorFlags_KeepsRelay(config) ==
  IF config.nat_traversal
    THEN {PORTALLOCATOR_DISABLE_TCP}
    ELSE {PORTALLOCATOR_DISABLE_TCP, PORTALLOCATOR_DISABLE_STUN}

\* Mutant of PortAllocatorFlags: TCP is disabled only without NAT traversal.
PortAllocatorFlags_TcpWithNat(config) ==
  IF config.nat_traversal
    THEN {}
    ELSE {PORTALLOCATOR_DISABLE_TCP, PORTALLOCATOR_DISABLE_STUN,
          PORTALLOCATOR_DISABLE_RELAY}

\* The flags Connect gives the allocator it creates.
PortAllocatorFlags(config) ==
  IF config.nat_traversal
    THEN {PORTALLOCATOR_DISABLE_TCP}
    ELSE {PORTALLOCATOR_DISABLE_TCP, PORTALLOCATOR_DISABLE_STUN,
          PORTALLOCATOR_DISABLE_RELAY}

NewPortAllocator(config) ==
  [kind |-> IF config.nat_traversal THEN "HttpPortAllocator" ELSE "BasicPortAllocator",
   flags |-> PortAllocatorFlags(config),
   min_port |-> config.min_port, max_port |-> config.max_port]

NewChannel(w) ==
  [name |-> w.name_, allocator |-> w.port_allocator_.kind, connect_called |-> TRUE,
   signaling_ready |-> FALSE, remote |-> <<>>]

\* Mutant of NewAdapter: the two buffer sizes are swapped.
NewAdapter_SwappedBuffers ==
  [st |-> "live", tcp |-> "none", auth |-> "none", holder |-> "transport",
   send_buffer |-> kTcpReceiveBufferSize, receive_buffer |-> kTcpSendBufferSize,
   no_delay |-> TRUE, ack_delay |-> kTcpAckDelayMilliseconds]

\* The PseudoTcpAdapter as Connect configures it, before its Connect is called.
NewAdapter ==
  [st |-> "live", tcp |-> "none", auth |-> "none", holder |-> "transport",
   send_buffer |-> kTcpSendBufferSize, receive_buffer |-> kTcpReceiveBufferSize,
   no_delay |-> TRUE, ack_delay |-> kTcpAckDelayMilliseconds]

\* What the adapter's Connect leaves behind for the value it returns.
TcpStatus(result) ==
  IF result = "ERR_IO_PENDING" THEN "pending"
  ELSE IF result = "OK" THEN "ok" ELSE "failed"

\* Mutant of Connect: the value returned by the adapter's Connect is dropped.
Connect_DropsSyncResult(w, callback, result, act) ==
  Then(w, LAMBDA a :
  Then(ThreadChecked(a), LAMBDA b :
  Then([b EXCEPT !.callback_ = callback,
                 !.port_allocator_ = NewPortAllocator(b.config_)], LAMBDA c :
  Then(DCHECK(c, c.channel_ = NoChannel), LAMBDA d :
  Then(DestroyAdapter([d EXCEPT !.channel_ = NewChannel(d),
                                !.adapters[callback] = NewAdapter,
                                !.socket_ = callback], d.socket_), LAMBDA e :
  [e EXCEPT !.adapters[callback].tcp = TcpStatus(result)])))))

\* Mutant of Connect: the allocator choice is written back into config_.
Connect_RewritesConfig(w, callback, result, act) ==
  Then(w, LAMBDA a :
  Then(ThreadChecked(a), LAMBDA b :
  Then([b EXCEPT !.callback_ = callback,
                 !.config_.nat_traversal = FALSE,
                 !.port_allocator_ = NewPortAllocator(b.config_)], LAMBDA c :
  Then(DCHECK(c, c.channel_ = NoChannel), LAMBDA d :
  Then(DestroyAdapter([d EXCEPT !.channel_ = NewChannel(d),
                                !.adapters[callback] = NewAdapter,
                                !.socket_ = callback], d.socket_), LAMBDA e :
  Then([e EXCEPT !.adapters[callback].tcp = TcpStatus(result)], LAMBDA f :
    IF result # "ERR_IO_PENDING" THEN OnTcpConnected(f, result, act) ELSE f))))))

\* |callback| also names the adapter this call creates; |result| is what the
\* adapter's Connect returns.
Connect(w, callback, result, act) ==
  Then(w, LAMBDA a :
  Then(ThreadChecked(a), LAMBDA b :
  Then([b EXCEPT !.callback_ = callback,
                 !.port_allocator_ = NewPortAllocator(b.config_)], LAMBDA c :
  Then(DCHECK(c, c.channel_ = NoChannel), LAMBDA d :
  Then(DestroyAdapter([d EXCEPT !.channel_ = NewChannel(d),
                                !.adapters[callback] = NewAdapter,
                                !.socket_ = callback], d.socket_), LAMBDA e :
  Then([e EXCEPT !.adapters[callback].tcp = TcpStatus(result)], LAMBDA f :
    IF result # "ERR_IO_PENDING" THEN OnTcpConnected(f, result, act) ELSE f))))))

AddRemoteCandidate(w, candidate) ==
  Then(w, LAMBDA a :
  Then(ThreadChecked(a), LAMBDA b :
    IF b.channel_ = NoChannel THEN Crash(b, "null_deref: channel_")
    ELSE [b EXCEPT !.channel_.remote = Append(@, candidate)]))

\* name(): DCHECK(CalledOnValidThread()); return name_;
NameCall(w) == Then(w, LAMBDA a : ThreadChecked(a))

\* is_connected(): DCHECK(CalledOnValidThread()); return callback_.is_null();
IsConnectedCall(w) == Then(w, LAMBDA a : ThreadChecked(a))

OnRequestSignaling(w) ==
  Then(w, LAMBDA a :
  Then(ThreadChecked(a), LAMBDA b :
    IF b.channel_ = NoChannel THEN Crash(b, "null_deref: channel_")
    ELSE [b EXCEPT !.channel_.signaling_ready = TRUE]))

\* Mutant of OnCandidateReady: the handler is told twice.
OnCandidateReady_NotifiesTwice(w, candidate) ==
  Then(w, LAMBDA a :
  Then(ThreadChecked(a), LAMBDA b :
    IF b.event_handler_ = NULL THEN Crash(b, "null_deref: event_handler_")
    ELSE [b EXCEPT !.handler_log =
            Append(Append(@, [type |-> "OnTransportCandidate",
                              candidate |-> candidate]),
                   [type |-> "OnTransportCandidate", candidate |-> candidate])]))

OnCandidateReady(w, candidate) ==
  Then(w, LAMBDA a :
  Then(ThreadChecked(a), LAMBDA b :
    IF b.event_handler_ = NULL THEN Crash(b, "null_deref: event_handler_")
    ELSE [b EXCEPT !.handler_log =
            Append(@, [type |-> "OnTransportCandidate", candidate |-> candidate])]))

\* The transport as the constructor leaves it.
Created(dcheck, config) ==
  [dcheck_on |-> dcheck, crash |-> "none", life |-> "live", destroyed_in |-> "",
   name_ |-> "", config_ |-> config, event_handler_ |-> NULL, callback_ |-> NULL,
   authenticator_ |-> NULL, port_allocator_ |-> NoAllocator,
   channel_ |-> NoChannel, socket_ |-> NULL,
   adapters |-> [s \in CallIds |-> NoAdapter],
   auths |-> [a \in CallIds |-> NoAuth],
   delivered |-> <<>>, handler_log |-> <<>>, ncalls |-> 0,
   context |-> "constructed"]

\* ------------------------------------------------------------ the factory
\* LibjingleTransportFactory::LibjingleTransportFactory: the factory makes and
\* owns one network manager and one packet socket factory.
LibjingleTransportFactory ==
  [network_manager_ |-> "BasicNetworkManager",
   socket_factory_ |-> "BasicPacketSocketFactory"]

\* Where a transport made by the factory can live.
Addrs == 1 .. MaxTransports

\* An address that holds no transport.
NoTransport ==
  [used |-> FALSE, network_manager_ |-> "", socket_factory_ |-> "",
   obj |-> Created(FALSE, [nat_traversal |-> FALSE, min_port |-> 0, max_port |-> 0])]

\* Mutant of CreateStreamTransport: the two factory members are passed in the
\* wrong order.
CreateStreamTransport_SwapsArguments(f, dcheck, config) ==
  [used |-> TRUE, network_manager_ |-> f.socket_factory_,
   socket_factory_ |-> f.network_manager_, obj |-> Created(dcheck, config)]

\* new LibjingleStreamTransport(network_manager_.get(), socket_factory_.get());
\* |config| is what the default-constructed config_ member holds.
CreateStreamTransport(f, dcheck, config) ==
  [used |-> TRUE, network_manager_ |-> f.network_manager_,
   socket_factory_ |-> f.socket_factory_, obj |-> Created(dcheck, config)]

\* Mutant of CreateDatagramTransport: a transport address is returned.
CreateDatagramTransport_ReturnsTransport(f) == 1

\* NOTIMPLEMENTED(); return scoped_ptr<DatagramTransport>(NULL);
CreateDatagramTransport(f) == NULL

NoCall == [call |-> "none", value |-> NULL]

\* ------------------------------------------------------ the DatabaseTracker
Origins == {"http_a_0", "chrome-extension_e"}
\* StartsWith(origin, kExtensionOriginIdentifierPrefix)
ExtensionOrigins == {"chrome-extension_e"}
\* The databases the renderers work with, as <<origin, name>>, in the order
\* of the tracker's maps.
DatabaseList == << <<"chrome-extension_e", "db1">>, <<"http_a_0", "db1">>,
                   <<"http_a_0", "db2">> >>
Databases == {DatabaseList[i] : i \in DOMAIN DatabaseList}
DatabaseNames == {db[2] : db \in Databases}
Callbacks == 1 .. MaxCallbacks

\* What the file system and the tracker database do during one call: each
\* call sees everything succeed, or one kind of operation fail.
AllOk == [init_ok |-> TRUE, file_deleted |-> TRUE, dir_deleted |-> TRUE,
          origins_ok |-> TRUE, details_ok |-> TRUE]
Envs == {AllOk,
         [AllOk EXCEPT !.init_ok = FALSE], [AllOk EXCEPT !.file_deleted = FALSE],
         [AllOk EXCEPT !.dir_deleted = FALSE], [AllOk EXCEPT !.origins_ok = FALSE],
         [AllOk EXCEPT !.details_ok = FALSE]}

\* DatabaseSet, a std::map<string16, std::set<string16> >: a function from the
\* origins it has entries for to sets of names.
NoDatabases == [o \in {} |-> {}]
NoCallbacks == [cb \in {} |-> NoDatabases]
NamesIn(ds, o) == IF o \in DOMAIN ds THEN ds[o] ELSE {}
\* ds[o].insert(n)
InsertName(ds, o, n) ==
  [x \in DOMAIN ds \cup {o} |-> IF x = o THEN NamesIn(ds, o) \cup {n} ELSE ds[x]]
\* ds[o].erase(n)
EraseName(ds, o, n) ==
  [x \in DOMAIN ds \cup {o} |-> IF x = o THEN NamesIn(ds, o) \ {n} ELSE ds[x]]
\* ds.erase(o)
EraseOrigin(ds, o) == [x \in DOMAIN ds \ {o} |-> ds[x]]
\* The databases a DatabaseSet names.
Members(ds) == {db \in Databases : db[1] \in DOMAIN ds /\ db[2] \in ds[db[1]]}

\* DatabaseConnections: how many connections each database has.
NoConnections == [db \in Databases |-> 0]
IsEmpty(c) == \A db \in Databases : c[db] = 0
IsDatabaseOpened(c, o, n) == c[<<o, n>>] > 0
IsOriginUsed(c, o) == \E db \in Databases : db[1] = o /\ c[db] > 0
AddConnection(c, o, n) == [c EXCEPT ![<<o, n>>] = @ + 1]
RemoveConnection(c, o, n) == [c EXCEPT ![<<o, n>>] = @ - 1]
\* RemoveConnections(connections, &closed_dbs): what is left, and the
\* databases that lost their last connection.
RemoveConnections(c, connections) == [db \in Databases |-> c[db] - connections[db]]
ClosedBy(c, connections) ==
  {db \in Databases : connections[db] > 0 /\ c[db] = connections[db]}
RECURSIVE NumOpen(_, _)
NumOpen(c, k) ==
  IF k = 0 THEN 0 ELSE c[DatabaseList[k]] + NumOpen(c, k - 1)

RECURSIVE Ascending(_)
\* The elements of a set of numbers, smallest first.
Ascending(S) ==
  IF S = {} THEN <<>>
  ELSE LET m == CHOOSE x \in S : \A y \in S : x <= y
       IN <<m>> \o Ascending(S \ {m})

\* DatabaseTracker::DatabaseTracker, with the tracker database and the
\* database files of its profile; |completed| holds the callbacks the last
\* call ran and |rv| what it returned.
NewTracker(incognito) ==
  [is_initialized_ |-> FALSE, is_incognito_ |-> incognito,
   database_connections_ |-> NoConnections,
   dbs_to_be_deleted_ |-> NoDatabases, deletion_callbacks_ |-> NoCallbacks,
   databases_table_ |-> {}, files |-> {},
   completed |-> <<>>, call |-> "", rv |-> ""]

\* LazyInit(); |ok| is whether the directory and the tracker database can be
\* set up.  The directory is wiped only when an existing tracker database
\* cannot be read, which precedes the first opened database.
LazyInit(t, ok) ==
  IF ~t.is_initialized_ /\ ~t.is_incognito_
    THEN [t EXCEPT !.is_initialized_ = ok] ELSE t

CloseTrackerDatabaseAndClearCaches(t) == [t EXCEPT !.is_initialized_ = FALSE]

InsertOrUpdateDatabaseDetails(t, o, n) ==
  [t EXCEPT !.databases_table_ = @ \cup {<<o, n>>}]

IsDatabaseScheduledForDeletion(t, o, n) ==
  o \in DOMAIN t.dbs_to_be_deleted_ /\ n \in t.dbs_to_be_deleted_[o]

\* The rows GetAllDatabaseDetailsForOrigin finds.
DetailsForOrigin(t, o) == {db \in t.databases_table_ : db[1] = o}

DeleteOrigin(t, o, env) ==
  LET a == LazyInit(t, env.init_ok) IN
  IF ~a.is_initialized_ THEN [a EXCEPT !.rv = "false"]
  ELSE IF IsOriginUsed(a.database_connections_, o) THEN [a EXCEPT !.rv = "false"]
  ELSE IF ~env.dir_deleted THEN [a EXCEPT !.rv = "false"]
  ELSE [a EXCEPT !.files = {db \in @ : db[1] # o},
                 !.databases_table_ = {db \in @ : db[1] # o},
                 !.rv = "true"]

\* Mutant of DeleteClosedDatabase: the connections are not looked at.
DeleteClosedDatabase_IgnoresConnections(t, o, n, env) ==
  LET a == LazyInit(t, env.init_ok) IN
  IF ~a.is_initialized_ THEN [a EXCEPT !.rv = "false"]
  ELSE IF <<o, n>> \in a.databases_table_ /\ <<o, n>> \in a.files
          /\ ~env.file_deleted
    THEN [a EXCEPT !.rv = "false"]
  ELSE LET b == [a EXCEPT !.files = IF <<o, n>> \in a.databases_table_
                                      THEN @ \ {<<o, n>>} ELSE @,
                          !.databases_table_ = @ \ {<<o, n>>}]
       IN IF env.details_ok /\ DetailsForOrigin(b, o) = {}
            THEN [DeleteOrigin(b, o, env) EXCEPT !.rv = "true"]
            ELSE [b EXCEPT !.rv = "true"]

\* The file's path comes from the database's row (GetFullDBFilePath): without
\* a row there is no file to look for.
DeleteClosedDatabase(t, o, n, env) ==
  LET a == LazyInit(t, env.init_ok) IN
  IF ~a.is_initialized_ THEN [a EXCEPT !.rv = "false"]
  ELSE IF IsDatabaseOpened(a.database_connections_, o, n)
    THEN [a EXCEPT !.rv = "false"]
  ELSE IF <<o, n>> \in a.databases_table_ /\ <<o, n>> \in a.files
          /\ ~env.file_deleted
    THEN [a EXCEPT !.rv = "false"]
  ELSE LET b == [a EXCEPT !.files = IF <<o, n>> \in a.databases_table_
                                      THEN @ \ {<<o, n>>} ELSE @,
                          !.databases_table_ = @ \ {<<o, n>>}]
       IN IF env.details_ok /\ DetailsForOrigin(b, o) = {}
            THEN [DeleteOrigin(b, o, env) EXCEPT !.rv = "true"]
            ELSE [b EXCEPT !.rv = "true"]

\* What is left of a callback's pending set when <<o, n>> is struck off.
StruckOff(ds, o, n) ==
  IF o \notin DOMAIN ds THEN ds
  ELSE IF ds[o] \ {n} = {} THEN EraseOrigin(ds, o)
  ELSE EraseName(ds, o, n)

DeleteDatabaseIfNeeded(t, o, n, env) ==
  IF ~IsDatabaseScheduledForDeletion(t, o, n) THEN t
  ELSE
    LET a == DeleteClosedDatabase(t, o, n, env)
        erased == EraseName(a.dbs_to_be_deleted_, o, n)
        dc == a.deletion_callbacks_
        to_be_deleted == {cb \in DOMAIN dc :
                            /\ o \in DOMAIN dc[cb]
                            /\ DOMAIN StruckOff(dc[cb], o, n) = {}}
    IN [a EXCEPT
          !.dbs_to_be_deleted_ =
             IF erased[o] = {} THEN EraseOrigin(erased, o) ELSE erased,
          !.deletion_callbacks_ =
             [cb \in DOMAIN dc \ to_be_deleted |-> StruckOff(dc[cb], o, n)],
          !.completed =
             @ \o [i \in 1 .. Cardinality(to_be_deleted) |->
                     [callback |-> Ascending(to_be_deleted)[i], rv |-> "OK"]]]

RECURSIVE DeleteEachIfNeeded(_, _, _, _)
\* DeleteDatabaseIfNeeded for the first k entries of DatabaseList that are
\* in |dbs|.
DeleteEachIfNeeded(t, dbs, k, env) ==
  IF k = 0 THEN t
  ELSE LET a == DeleteEachIfNeeded(t, dbs, k - 1, env)
           db == DatabaseList[k]
       IN IF db \in dbs THEN DeleteDatabaseIfNeeded(a, db[1], db[2], env) ELSE a

RECURSIVE DeleteEachClosed(_, _, _, _)
\* DeleteClosedDatabase for the first k entries of DatabaseList that are in
\* |dbs| and not opened.
DeleteEachClosed(t, dbs, k, env) ==
  IF k = 0 THEN t
  ELSE LET a == DeleteEachClosed(t, dbs, k - 1, env)
           db == DatabaseList[k]
       IN IF db \in dbs /\ ~IsDatabaseOpened(a.database_connections_, db[1], db[2])
            THEN DeleteClosedDatabase(a, db[1], db[2], env) ELSE a

DatabaseOpened(t, o, n, env) ==
  LET a == LazyInit(t, env.init_ok) IN
  IF ~a.is_initialized_ THEN [a EXCEPT !.rv = "not tracked"]
  ELSE [InsertOrUpdateDatabaseDetails(a, o, n) EXCEPT
          !.database_connections_ = AddConnection(@, o, n), !.rv = "tracked"]

DatabaseClosed(t, o, n, env) ==
  IF IsEmpty(t.database_connections_) THEN t
  ELSE LET a == [t EXCEPT !.database_connections_ = RemoveConnection(@, o, n)]
       IN IF ~IsDatabaseOpened(a.database_connections_, o, n)
            THEN DeleteDatabaseIfNeeded(a, o, n, env) ELSE a

CloseDatabases(t, connections, env) ==
  IF IsEmpty(t.database_connections_) THEN t
  ELSE DeleteEachIfNeeded(
         [t EXCEPT !.database_connections_ = RemoveConnections(@, connections)],
         ClosedBy(t.database_connections_, connections),
         Len(DatabaseList), env)

ScheduleDatabaseForDeletion(t, o, n) ==
  [t EXCEPT !.dbs_to_be_deleted_ = InsertName(@, o, n)]

RECURSIVE ScheduleEach(_, _, _)
\* ScheduleDatabaseForDeletion for the first k entries of DatabaseList that
\* are in |databases|.
ScheduleEach(t, databases, k) ==
  IF k = 0 THEN t
  ELSE LET a == ScheduleEach(t, databases, k - 1)
           db == DatabaseList[k]
       IN IF db \in Members(databases)
            THEN ScheduleDatabaseForDeletion(a, db[1], db[2]) ELSE a

ScheduleDatabasesForDeletion(t, databases, callback) ==
  ScheduleEach(
    IF callback # NULL
      THEN [t EXCEPT !.deletion_callbacks_ =
              [cb \in DOMAIN @ \cup {callback} |->
                 IF cb = callback THEN databases ELSE @[cb]]]
      ELSE t,
    databases, Len(DatabaseList))

DeleteDatabase(t, o, n, callback, env) ==
  LET a == LazyInit(t, env.init_ok) IN
  IF ~a.is_initialized_ THEN [a EXCEPT !.rv = "ERR_FAILED"]
  ELSE IF IsDatabaseOpened(a.database_connections_, o, n)
    THEN [ScheduleDatabaseForDeletion(
            IF callback # NULL
              THEN [a EXCEPT !.deletion_callbacks_ =
                      [cb \in DOMAIN @ \cup {callback} |->
                         InsertName(IF cb \in DOMAIN @ THEN @[cb] ELSE NoDatabases,
                                    o, n)]]
              ELSE a, o, n)
          EXCEPT !.rv = "ERR_IO_PENDING"]
  ELSE [DeleteClosedDatabase(a, o, n, env) EXCEPT !.rv = "OK"]

\* The DatabaseSet of the opened databases among |dbs|.
OpenedAmong(t, dbs) ==
  LET opened == {db \in dbs :
                   IsDatabaseOpened(t.database_connections_, db[1], db[2])}
  IN [o \in {db[1] : db \in opened} |-> {db[2] : db \in {d \in opened : d[1] = o}}]

\* The rest of DeleteDataForOrigin and DeleteDataModifiedSince once the rows
\* |dbs| have been picked: the closed ones are deleted, the opened ones
\* scheduled.
DeleteOrSchedule(t, dbs, callback, env) ==
  LET to_be_deleted == OpenedAmong(t, dbs)
      a == DeleteEachClosed(t, dbs, Len(DatabaseList), env)
  IN IF DOMAIN to_be_deleted # {}
       THEN [ScheduleDatabasesForDeletion(a, to_be_deleted, callback)
               EXCEPT !.rv = "ERR_IO_PENDING"]
       ELSE [a EXCEPT !.rv = "OK"]

\* |modified| are the databases whose file is not older than the cutoff.
DeleteDataModifiedSince(t, modified, callback, env) ==
  LET a == LazyInit(t, env.init_ok) IN
  IF ~a.is_initialized_ THEN [a EXCEPT !.rv = "ERR_FAILED"]
  ELSE IF ~env.origins_ok THEN [a EXCEPT !.rv = "ERR_FAILED"]
  ELSE IF ~env.details_ok THEN [a EXCEPT !.rv = "ERR_FAILED"]
  ELSE DeleteOrSchedule(a, {db \in a.databases_table_ :
                              db[1] \notin ExtensionOrigins /\ db \in modified},
                        callback, env)

DeleteDataForOrigin(t, origin, callback, env) ==
  LET a == LazyInit(t, env.init_ok) IN
  IF ~a.is_initialized_ THEN [a EXCEPT !.rv = "ERR_FAILED"]
  ELSE IF ~env.details_ok THEN [a EXCEPT !.rv = "ERR_FAILED"]
  ELSE DeleteOrSchedule(a, DetailsForOrigin(a, origin), callback, env)

\* ------------------------------------------------------------- the machine
Init ==
  /\ dcheck_on \in BOOLEAN
  /\ crash = "none"
  /\ life = "live"
  /\ destroyed_in = ""
  /\ name_ = ""
  /\ config_ \in Configs
  /\ event_handler_ = NULL
  /\ callback_ = NULL
  /\ authenticator_ = NULL
  /\ port_allocator_ = NoAllocator
  /\ channel_ = NoChannel
  /\ socket_ = NULL
  /\ adapters = [s \in CallIds |-> NoAdapter]
  /\ auths = [a \in CallIds |-> NoAuth]
  /\ delivered = <<>>
  /\ handler_log = <<>>
  /\ ncalls = 0
  /\ factory = LibjingleTransportFactory
  /\ transports = [a \in Addrs |-> NoTransport]
  /\ returned = NoCall
  /\ context = "constructed"
  /\ tracker = NewTracker(FALSE)

Running == crash = "none"

NumLocal == Cardinality({i \in DOMAIN handler_log :
                          handler_log[i].type = "OnTransportCandidate"})

\* Candidates are numbered as they appear: a remote candidate by the call that
\* feeds it, a local one by its place among those the ICE layer gathered.
NextLocal == NumLocal + 1

\* The owner calls Initialize with a fresh authenticator.
DoInitialize ==
  /\ Running /\ life = "live" /\ ncalls < MaxCalls
  /\ \E nm \in Names, config \in Configs, eh \in Handlers :
       Becomes(Initialize(
         [World EXCEPT !.ncalls = ncalls + 1,
                       !.auths[ncalls + 1] = [NoAuth EXCEPT !.st = "idle"]],
         nm, config, eh, ncalls + 1))

\* The owner calls Connect: the adapter's Connect returns |result|, and the
\* caller's callback, if it runs inside the call, does |act|.
ConnectCall(result, act) ==
  /\ Running /\ life = "live" /\ ncalls < MaxCalls
  /\ Becomes(Connect([World EXCEPT !.ncalls = ncalls + 1],
                     ncalls + 1, result, act))

DoConnect ==
  \E result \in ConnectResults, act \in CallbackActs : ConnectCall(result, act)

DoAddRemoteCandidate ==
  /\ Running /\ life = "live" /\ ncalls < MaxCalls
  /\ Becomes(AddRemoteCandidate([World EXCEPT !.ncalls = ncalls + 1], ncalls + 1))

\* The P2P channel raises SignalRequestSignaling.
ChannelRequestsSignaling ==
  /\ Running /\ channel_ # NoChannel /\ ~channel_.signaling_ready
  /\ Becomes(OnRequestSignaling(World))

\* The P2P channel raises SignalCandidateReady.
ChannelCandidateReady ==
  /\ Running /\ channel_ # NoChannel /\ NumLocal < MaxLocal
  /\ Becomes(OnCandidateReady(World, NextLocal))

\* A pending PseudoTcpAdapter connect completes and runs the bound callback.
TcpCompletion(s, result, act) ==
  /\ Running
  /\ adapters[s].st = "live" /\ adapters[s].tcp = "pending"
  /\ Becomes(OnTcpConnected(
       [World EXCEPT !.adapters[s].tcp = TcpStatus(result)], result, act))

TcpConnectCompletes ==
  \E s \in CallIds, result \in Completions, act \in CallbackActs :
    TcpCompletion(s, result, act)

\* A pending handshake completes: with OK the authenticator hands over the
\* upgraded socket (which owns the raw one); with an error it hands over
\* nothing, or the socket it was given.
AuthenticationCompletion(a, error, hands_over, act) ==
  /\ Running
  /\ auths[a].st = "pending"
  /\ error = "OK" => hands_over
  /\ LET s == auths[a].sock
         w == [World EXCEPT
                 !.auths[a].st = "done",
                 !.auths[a].sock = IF hands_over THEN NULL ELSE s,
                 !.adapters[s].auth = IF error = "OK" THEN "ok" ELSE "failed",
                 !.adapters[s].holder =
                    IF hands_over THEN "argument" ELSE "authenticator"]
     IN Becomes(OnAuthenticationDone(w, error,
                                     IF hands_over THEN s ELSE NULL, act))

AuthenticationCompletes ==
  \E a \in CallIds, error \in Completions, hands_over \in BOOLEAN,
     act \in CallbackActs :
    AuthenticationCompletion(a, error, hands_over, act)

\* The caller destroys the socket it was given.
CallerReleasesSocket ==
  /\ Running
  /\ \E s \in CallIds :
       /\ adapters[s].st = "live" /\ adapters[s].holder = "caller"
       /\ Becomes(DestroyAdapter(World, s))

\* The owner destroys the transport it got from CreateStreamTransport.
OwnerDeletesTransport ==
  /\ Running /\ life = "live"
  /\ Becomes(DeleteTransport(World))

Next ==
  \/ DoInitialize
  \/ DoConnect
  \/ DoAddRemoteCandidate
  \/ ChannelRequestsSignaling
  \/ ChannelCandidateReady
  \/ TcpConnectCompletes
  \/ AuthenticationCompletes
  \/ CallerReleasesSocket
  \/ OwnerDeletesTransport

Spec == Init /\ [][Next]_vars

\* The same machine started from a transport that Initialize has just given a
\* config out of the wider set: what Connect makes of each config.
WidePortRanges == {<<0, 0>>, <<12400, 12409>>, <<1024, 65535>>}
WideConfigs == {[nat_traversal |-> n, min_port |-> r[1], max_port |-> r[2]] :
                  n \in BOOLEAN, r \in WidePortRanges}

Is(w) ==
  /\ dcheck_on = w.dcheck_on /\ crash = w.crash /\ life = w.life
  /\ destroyed_in = w.destroyed_in /\ name_ = w.name_ /\ config_ = w.config_
  /\ event_handler_ = w.event_handler_ /\ callback_ = w.callback_
  /\ authenticator_ = w.authenticator_ /\ port_allocator_ = w.port_allocator_
  /\ channel_ = w.channel_ /\ socket_ = w.socket_ /\ adapters = w.adapters
  /\ auths = w.auths /\ delivered = w.delivered
  /\ handler_log = w.handler_log /\ ncalls = w.ncalls

ConfigInit ==
  \E dcheck \in BOOLEAN, config \in WideConfigs :
    \E w \in {Initialize([Created(dcheck, config) EXCEPT
                             !.ncalls = 1,
                             !.auths[1] = [NoAuth EXCEPT !.st = "idle"]],
                          "video", config, Handler, 1)} :
      /\ Is(w)
      /\ factory = LibjingleTransportFactory
      /\ transports = [a \in Addrs |-> NoTransport]
      /\ returned = NoCall
      /\ context = "constructed"
      /\ tracker = NewTracker(FALSE)

ConfigSpec == ConfigInit /\ [][Next]_vars

\* The factory at work: it makes transports, and their owners initialize and
\* delete them; the transport followed by the other actions stays as made.
transport_vars == <<dcheck_on, crash, life, destroyed_in, name_, config_,
                    event_handler_, callback_, authenticator_, port_allocator_,
                    channel_, socket_, adapters, auths, delivered, handler_log,
                    ncalls>>

FactoryRunning == \A a \in Addrs : transports[a].obj.crash = "none"

\* CreateStreamTransport() puts the new transport at |a|, with |config| in its
\* default-constructed config_.
CreateStreamTransportAt(a, config) ==
  /\ FactoryRunning /\ ~transports[a].used
  /\ transports' = [transports EXCEPT
                      ![a] = CreateStreamTransport(factory, dcheck_on, config)]
  /\ returned' = [call |-> "CreateStreamTransport", value |-> a]
  /\ UNCHANGED <<factory, transport_vars, context, tracker>>

DoCreateStreamTransport ==
  \E a \in Addrs, config \in Configs : CreateStreamTransportAt(a, config)

DoCreateDatagramTransport ==
  /\ FactoryRunning
  /\ returned' = [call |-> "CreateDatagramTransport",
                  value |-> CreateDatagramTransport(factory)]
  /\ UNCHANGED <<factory, transports, transport_vars, context, tracker>>

\* The owner of a transport it has not used yet calls Initialize on it.
InitializeCreated ==
  /\ FactoryRunning
  /\ \E a \in Addrs, nm \in Names, config \in Configs :
       /\ transports[a].used /\ transports[a].obj.ncalls = 0
       /\ transports' = [transports EXCEPT
            ![a].obj = Remains(Initialize(
                         [@ EXCEPT !.ncalls = 1,
                                   !.auths[1] = [NoAuth EXCEPT !.st = "idle"]],
                         nm, config, Handler, 1))]
  /\ UNCHANGED <<factory, returned, transport_vars, context, tracker>>

\* The owner of a transport deletes it; its address is free again.
DeleteCreated ==
  /\ FactoryRunning
  /\ \E a \in Addrs :
       /\ transports[a].used
       /\ \E w \in {Remains(DeleteTransport(transports[a].obj))} :
            transports' = [transports EXCEPT
                             ![a] = IF Ok(w) THEN NoTransport
                                    ELSE [@ EXCEPT !.obj = w]]
  /\ UNCHANGED <<factory, returned, transport_vars, context, tracker>>

FactoryNext ==
  \/ DoCreateStreamTransport
  \/ DoCreateDatagramTransport
  \/ InitializeCreated
  \/ DeleteCreated

FactorySpec == Init /\ [][FactoryNext]_vars

\* The transport called from its own context and from another one.
Contexts == {"constructed", "other"}

\* The current world with a call under way on |ctx|.
InContext(ctx) == [World EXCEPT !.context = ctx]

InitializeOn(ctx) ==
  /\ Running /\ life = "live" /\ ncalls < MaxCalls
  /\ \E config \in Configs :
       Becomes(Initialize(
         [InContext(ctx) EXCEPT !.ncalls = ncalls + 1,
                                !.auths[ncalls + 1] = [NoAuth EXCEPT !.st = "idle"]],
         "video", config, Handler, ncalls + 1))

ConnectOn(ctx) ==
  /\ Running /\ life = "live" /\ ncalls < MaxCalls
  /\ \E result \in ConnectResults :
       Becomes(Connect([InContext(ctx) EXCEPT !.ncalls = ncalls + 1],
                       ncalls + 1, result, "keep"))

AddRemoteCandidateOn(ctx) ==
  /\ Running /\ life = "live" /\ ncalls < MaxCalls
  /\ Becomes(AddRemoteCandidate([InContext(ctx) EXCEPT !.ncalls = ncalls + 1],
                                ncalls + 1))

NameOn(ctx) ==
  /\ Running /\ life = "live"
  /\ Becomes(NameCall(InContext(ctx)))

IsConnectedOn(ctx) ==
  /\ Running /\ life = "live"
  /\ Becomes(IsConnectedCall(InContext(ctx)))

RequestSignalingOn(ctx) ==
  /\ Running /\ channel_ # NoChannel /\ ~channel_.signaling_ready
  /\ Becomes(OnRequestSignaling(InContext(ctx)))

CandidateReadyOn(ctx) ==
  /\ Running /\ channel_ # NoChannel /\ NumLocal < MaxLocal
  /\ Becomes(OnCandidateReady(InContext(ctx), NextLocal))

TcpCompletionOn(ctx) ==
  /\ Running
  /\ \E s \in CallIds, result \in Completions :
       /\ adapters[s].st = "live" /\ adapters[s].tcp = "pending"
       /\ Becomes(OnTcpConnected(
            [InContext(ctx) EXCEPT !.adapters[s].tcp = TcpStatus(result)],
            result, "keep"))

AuthenticationCompletionOn(ctx) ==
  /\ Running
  /\ \E a \in CallIds, error \in Completions, hands_over \in BOOLEAN :
       /\ auths[a].st = "pending"
       /\ error = "OK" => hands_over
       /\ LET s == auths[a].sock
              w == [InContext(ctx) EXCEPT
                      !.auths[a].st = "done",
                      !.auths[a].sock = IF hands_over THEN NULL ELSE s,
                      !.adapters[s].auth = IF error = "OK" THEN "ok" ELSE "failed",
                      !.adapters[s].holder =
                         IF hands_over THEN "argument" ELSE "authenticator"]
          IN Becomes(OnAuthenticationDone(w, error,
                                          IF hands_over THEN s ELSE NULL, "keep"))

\* The delivered socket is destroyed on |ctx|: its channel adapter runs
\* OnChannelDestroyed there.
ChannelDestroyedOn(ctx) ==
  /\ Running
  /\ \E s \in CallIds :
       /\ adapters[s].st = "live" /\ adapters[s].holder = "caller"
       /\ Becomes(DestroyAdapter(InContext(ctx), s))

CallOn(ctx) ==
  \/ InitializeOn(ctx)
  \/ ConnectOn(ctx)
  \/ AddRemoteCandidateOn(ctx)
  \/ NameOn(ctx)
  \/ IsConnectedOn(ctx)
  \/ RequestSignalingOn(ctx)
  \/ CandidateReadyOn(ctx)
  \/ TcpCompletionOn(ctx)
  \/ AuthenticationCompletionOn(ctx)
  \/ ChannelDestroyedOn(ctx)

ThreadNext == \E ctx \in Contexts : CallOn(ctx)

ThreadSpec == Init /\ [][ThreadNext]_vars

\* The DatabaseTracker at work: renderers open and close databases, their
\* files appear, and the browser asks for deletions.
TrackerInit ==
  /\ Is([Created(FALSE, [nat_traversal |-> FALSE, min_port |-> 0, max_port |-> 0])
          EXCEPT !.config_ = CHOOSE c \in Configs : TRUE])
  /\ factory = LibjingleTransportFactory
  /\ transports = [a \in Addrs |-> NoTransport]
  /\ returned = NoCall
  /\ context = "constructed"
  /\ \E incognito \in BOOLEAN : tracker = NewTracker(incognito)

\* The tracker as |call| finds it.
Call(call) == [tracker EXCEPT !.completed = <<>>, !.call = call, !.rv = ""]

Runs(t) ==
  /\ tracker' = t
  /\ UNCHANGED <<factory, transports, returned, transport_vars, context>>

\* What can go wrong during a call of the tracker as it is: LazyInit fails
\* only where it has something to do.
EnvsNow(envs) ==
  {env \in envs : env.init_ok \/ (~tracker.is_initialized_ /\ ~tracker.is_incognito_)}
\* A call that only opens the tracker database.
InitEnvs == {env \in Envs : env = [AllOk EXCEPT !.init_ok = env.init_ok]}
\* A call that does not list the origins.
DeleteEnvs == {env \in Envs : env.origins_ok}
\* The files a cutoff time can leave as modified since.
ModifiedSets == {Databases, {DatabaseList[2]}}

\* A callback the caller may pass: none, or one that is not registered.
FreeCallbacks == {NULL} \cup (Callbacks \ DOMAIN tracker.deletion_callbacks_)

DoDatabaseOpened ==
  \E db \in Databases, env \in EnvsNow(InitEnvs) :
    /\ NumOpen(tracker.database_connections_, Len(DatabaseList)) < MaxOpen
    /\ Runs(DatabaseOpened(Call("DatabaseOpened"), db[1], db[2], env))

\* The renderer's file system layer creates the file of an opened database.
VfsCreatesFile ==
  \E db \in Databases :
    /\ tracker.database_connections_[db] > 0 /\ db \notin tracker.files
    /\ Runs([Call("") EXCEPT !.files = @ \cup {db}])

\* A renderer closes a connection it has, or one the tracker could not record.
DoDatabaseClosed ==
  \E db \in Databases, env \in EnvsNow(DeleteEnvs) :
    /\ \/ tracker.database_connections_[db] > 0
       \/ IsEmpty(tracker.database_connections_) /\ ~tracker.is_initialized_
    /\ Runs(DatabaseClosed(Call("DatabaseClosed"), db[1], db[2], env))

\* A renderer goes away with the connections it has.
DoCloseDatabases ==
  \E connections \in [Databases -> 0 .. MaxOpen], env \in EnvsNow(DeleteEnvs) :
    /\ \A db \in Databases : connections[db] <= tracker.database_connections_[db]
    /\ ~IsEmpty(connections)
    /\ Runs(CloseDatabases(Call("CloseDatabases"), connections, env))

DoDeleteDatabase ==
  \E db \in Databases, callback \in FreeCallbacks, env \in EnvsNow(DeleteEnvs) :
    Runs(DeleteDatabase(Call("DeleteDatabase"), db[1], db[2], callback, env))

DoDeleteClosedDatabase ==
  \E db \in Databases, env \in EnvsNow(DeleteEnvs) :
    Runs(DeleteClosedDatabase(Call("DeleteClosedDatabase"), db[1], db[2], env))

DoDeleteDataForOrigin ==
  \E origin \in Origins, callback \in FreeCallbacks, env \in EnvsNow(DeleteEnvs) :
    Runs(DeleteDataForOrigin(Call("DeleteDataForOrigin"), origin, callback, env))

DoDeleteDataModifiedSince ==
  \E modified \in ModifiedSets, callback \in FreeCallbacks, env \in EnvsNow(Envs) :
    Runs(DeleteDataModifiedSince(Call("DeleteDataModifiedSince"), modified,
                                 callback, env))

DoCloseTrackerDatabaseAndClearCaches ==
  \E t \in {CloseTrackerDatabaseAndClearCaches(
              Call("CloseTrackerDatabaseAndClearCaches"))} : Runs(t)

TrackerNext ==
  \/ DoDatabaseOpened
  \/ VfsCreatesFile
  \/ DoDatabaseClosed
  \/ DoCloseDatabases
  \/ DoDeleteDatabase
  \/ DoDeleteClosedDatabase
  \/ DoDeleteDataForOrigin
  \/ DoDeleteDataModifiedSince
  \/ DoCloseTrackerDatabaseAndClearCaches

TrackerSpec == TrackerInit /\ [][TrackerNext]_vars

\* ------------------------------------------------------------ observations
State == StateOf(World)
Last(q) == q[Len(q)]
\* A ConnectedCallback ran in this step.
Notified == Len(delivered') = Len(delivered) + 1
NotifiedNull == Notified /\ Last(delivered').socket = NULL

\* C1: a callback stored by Connect is run at most once, and each run carries
\* either a socket made by one of the Connect calls or the null socket.
C1_CallbackAtMostOnce ==
  /\ \A i, j \in DOMAIN delivered : delivered[i].cb = delivered[j].cb => i = j
  /\ \A i \in DOMAIN delivered :
        /\ delivered[i].cb \in CallIds
        /\ delivered[i].socket \in CallIds \cup {NULL}
\* Two Connect calls have each had their callback run.
C1_Witness == crash = "none" /\ Len(delivered) = 2

\* C2: whenever the adapter reports a connect result to a live transport, and
\* whenever the authenticator reports a result, the step that handles the
\* report either starts the handshake (adapter OK) or runs the callback.
C2_ReportLeadsToCallback ==
  [][\A s \in CallIds :
       /\ (adapters[s].tcp # "failed" /\ adapters'[s].tcp = "failed") => Notified
       /\ (adapters[s].tcp # "ok" /\ adapters'[s].tcp = "ok")
             => adapters'[s].auth = "pending"
       /\ (adapters[s].auth = "pending" /\ adapters'[s].auth \in {"ok", "failed"})
             => Notified]_vars
\* Both stages reported OK and the callback ran with the socket.
C2_Witness ==
  \E s \in CallIds : /\ adapters[s].tcp = "ok" /\ adapters[s].auth = "ok"
                     /\ \E i \in DOMAIN delivered : delivered[i].socket = s

\* C3: when a handshake that followed a successful reliability connect reports
\* a failure, the callback runs in that step with the null socket and the
\* transport is Failed.
C3_AuthFailureGivesNull ==
  [][\A s \in CallIds :
       (adapters[s].auth = "pending" /\ adapters'[s].auth = "failed")
         => /\ adapters[s].tcp = "ok"
            /\ NotifiedNull
            /\ State' = "Failed"
            /\ \A i \in DOMAIN delivered' : delivered'[i].socket # s]_vars
C3_Witness ==
  /\ crash = "none" /\ delivered # <<>> /\ Last(delivered).socket = NULL
  /\ \E s \in CallIds : adapters[s].tcp = "ok" /\ adapters[s].auth = "failed"

\* C4: when the adapter's connect ends with a result other than OK, the callback
\* runs in that step with the null socket, the transport is Failed, no
\* authenticator is called in that step, and that adapter is never given to an
\* authenticator.
C4_TcpFailureGivesNull ==
  [][/\ \A s \in CallIds :
          (adapters[s].tcp # "failed" /\ adapters'[s].tcp = "failed")
            => /\ NotifiedNull
               /\ State' = "Failed"
               /\ \A a \in CallIds : auths'[a].calls = auths[a].calls
     /\ \A s \in CallIds :
          adapters'[s].tcp = "failed" => adapters'[s].auth = "none"]_vars
C4_Witness ==
  /\ crash = "none" /\ delivered # <<>> /\ Last(delivered).socket = NULL
  /\ \E s \in CallIds : adapters[s].tcp = "failed" /\ adapters[s].auth = "none"
  /\ \E a \in CallIds : authenticator_ = NULL /\ auths[a].st = "destroyed"

\* C5: a socket given to the callback is one whose reliability connect ended OK
\* and whose handshake, started after that, ended OK; it is the socket the
\* authenticator handed over.
C5_SocketOnlyAfterBothOk ==
  crash = "none" =>
    \A i \in DOMAIN delivered :
      delivered[i].socket # NULL =>
        /\ adapters[delivered[i].socket].tcp = "ok"
        /\ adapters[delivered[i].socket].auth = "ok"
        /\ \A a \in CallIds : auths[a].sock # delivered[i].socket
C5_Witness ==
  /\ crash = "none" /\ State = "Connected" /\ life = "live"
  /\ adapters[Last(delivered).socket].holder = "caller"

\* C6 as claimed: at a run of the callback with the null socket the transport
\* owns none of port allocator, channel, adapter, authenticator.
C6_AllReleasedAtFailure ==
  \A i \in DOMAIN delivered :
    delivered[i].socket = NULL => delivered[i].owned = {}
\* C6 amended: channel, adapter and authenticator are released by then; the
\* port allocator is still owned.
C6_AllButAllocatorReleased ==
  \A i \in DOMAIN delivered :
    delivered[i].socket = NULL => delivered[i].owned = {"port_allocator"}
C6_Witness ==
  /\ crash = "none" /\ State = "Failed" /\ life = "live"
  /\ port_allocator_ # NoAllocator /\ channel_ = NoChannel

\* C7: once the transport was destroyed while Connecting or Authenticating,
\* no adapter or authenticator completion is left pending (so none can run a
\* handler on the freed object) and no callback runs.
C7_NoLateCallback ==
  [][(crash = "none" /\ life = "dead"
        /\ destroyed_in \in {"Connecting", "Authenticating"})
       => /\ delivered' = delivered
          /\ \A s \in CallIds :
               /\ ~(adapters[s].st = "live" /\ adapters[s].tcp = "pending")
               /\ auths[s].st # "pending"]_vars
C7_Witness ==
  /\ crash = "none" /\ life = "dead" /\ destroyed_in = "Authenticating"
  /\ \E a \in CallIds : auths[a].st = "destroyed" /\ auths[a].calls = 1

\* C8 as claimed: is_connected() is true exactly when a callback has been
\* delivered (Connected or Failed), false from construction up to delivery.
C8_IsConnectedIffDelivered ==
  (crash = "none" /\ life = "live")
    => (is_connected(World) <=> State \in {"Connected", "Failed"})

\* C9 as claimed, for a build with DCHECKs: once Connect has been called, no
\* later step creates another adapter or stores another callback.
C9_SecondConnectRejected ==
  [][(dcheck_on /\ name_ # "" /\ \E s \in CallIds : adapters[s].st # "none")
       => /\ \A k \in CallIds : adapters[k].st = "none" => adapters'[k].st = "none"
          /\ callback_' \in {callback_, NULL}]_vars

\* C10 as claimed, for a build with DCHECKs: while Initialize has not been
\* called, the transport has no allocator, channel or adapter.
C10_NoConnectBeforeInitialize ==
  (dcheck_on /\ crash = "none" /\ \A a \in CallIds : auths[a].st = "none")
    => /\ port_allocator_ = NoAllocator
       /\ channel_ = NoChannel
       /\ \A s \in CallIds : adapters[s].st = "none"

\* C11 as claimed, for a build with DCHECKs: a step that stores a name (an
\* accepted Initialize) starts in Uninitialized and stores a non-empty name.
C11_InitializeOnlyWhenUninitialized ==
  [][(dcheck_on /\ crash' = "none" /\ name_' # name_)
       => (State = "Uninitialized" /\ name_' # "")]_vars

\* A step of the live process that is not an Initialize call (it brings no new
\* authenticator).
NotInitialize ==
  /\ crash' = "none"
  /\ \A a \in CallIds : auths[a].st = "none" => auths'[a].st = "none"

\* C12: once Initialize has stored a name, no step other than Initialize
\* changes what name() returns or the stored TransportConfig.
C12_NameAndConfigFrozen ==
  [][(name_ # "" /\ NotInitialize)
       => (name(World)' = name(World) /\ config_' = config_)]_vars
\* An initialized transport has surfaced a local candidate and then failed.
C12_Witness ==
  /\ crash = "none" /\ name(World) = "video"
  /\ handler_log # <<>>
  /\ delivered # <<>> /\ Last(delivered).socket = NULL

\* This step is the call AddRemoteCandidate(candidate) on the live transport.
AddRemoteCandidateStep ==
  /\ crash = "none" /\ life = "live" /\ ncalls < MaxCalls
  /\ World' = Remains(AddRemoteCandidate([World EXCEPT !.ncalls = ncalls + 1],
                                         ncalls + 1))

\* C13 as claimed, for a build with DCHECKs: on an initialized transport whose
\* callback has not run yet, an AddRemoteCandidate call does not crash and
\* appends its candidate to what the ICE channel has received.
C13_EarlyCandidatesForwarded ==
  [][(dcheck_on /\ name_ # "" /\ delivered = <<>> /\ AddRemoteCandidateStep)
       => /\ crash' = "none"
          /\ channel_'.remote = Append(channel_.remote, ncalls + 1)]_vars

\* C14 as claimed, for a build with DCHECKs: from Connecting onward an
\* AddRemoteCandidate call finds the ICE channel and appends its candidate to
\* what the channel has received.
C14_ChannelExistsFromConnecting ==
  [][(/\ dcheck_on /\ name_ # ""
      /\ State \in {"Connecting", "Authenticating", "Connected", "Failed"}
      /\ AddRemoteCandidateStep)
       => /\ crash' = "none"
          /\ channel_ # NoChannel
          /\ channel_'.remote = Append(channel_.remote, ncalls + 1)]_vars

\* Connect has been called exactly once.
ConnectedOnce == Cardinality({s \in CallIds : adapters[s].st # "none"}) = 1

\* C15: in Connected, on a live transport with an event handler and one Connect
\* call behind it, the step in which the caller destroys the socket it was
\* given ends with the transport deleted by itself: destroyed in Connected,
\* OnTransportDeleted sent last.
C15_ReleaseInConnectedDeletes ==
  [][\A s \in CallIds :
       (/\ crash = "none" /\ life = "live" /\ event_handler_ # NULL
        /\ State = "Connected" /\ ConnectedOnce
        /\ adapters[s].st = "live" /\ adapters[s].holder = "caller"
        /\ World' = Remains(DestroyAdapter(World, s)))
         => /\ crash' = "none" /\ life' = "dead"
            /\ destroyed_in' = "Connected"
            /\ Last(handler_log').type = "OnTransportDeleted"]_vars
\* The transport is gone, destroyed in Connected, and so is a socket that had
\* been delivered after a successful handshake.
C15_Witness ==
  /\ crash = "none" /\ life = "dead" /\ destroyed_in = "Connected"
  /\ ConnectedOnce
  /\ \E i \in DOMAIN delivered :
       /\ delivered[i].socket # NULL
       /\ adapters[delivered[i].socket].st = "destroyed"

\* A step in which neither the owner nor the caller's callback deletes the
\* transport: whatever deletion it contains is the transport's own.
NoDeleteCall ==
  LET Acts == CallbackActs \ {"delete_transport"} IN
  \/ \E result \in ConnectResults, act \in Acts : ConnectCall(result, act)
  \/ \E s \in CallIds, result \in Completions, act \in Acts :
       TcpCompletion(s, result, act)
  \/ \E a \in CallIds, error \in Completions, hands_over \in BOOLEAN, act \in Acts :
       AuthenticationCompletion(a, error, hands_over, act)
  \/ CallerReleasesSocket

\* C16 as claimed, for a build with DCHECKs and one Connect call: a transport
\* that deletes itself does so in Connected, never in Connecting,
\* Authenticating or Failed.
C16_SelfDeleteOnlyInConnected ==
  [][(dcheck_on /\ crash = "none" /\ life = "live" /\ ConnectedOnce /\ NoDeleteCall)
       => (destroyed_in' = destroyed_in \/ destroyed_in' = "Connected")]_vars

\* How many OnTransportDeleted notifications the event handler has received.
NumDeleted == Cardinality({i \in DOMAIN handler_log :
                            handler_log[i].type = "OnTransportDeleted"})

\* C17: the event handler of a destroyed transport has received
\* OnTransportDeleted exactly once, that of a live one never, and nothing
\* follows an OnTransportDeleted in what the handler receives.
C17_DeletedNotifiedOnceAndLast ==
  /\ NumDeleted <= 1
  /\ NumDeleted = 1 => Last(handler_log).type = "OnTransportDeleted"
  /\ (crash = "none" /\ life = "dead") => NumDeleted = 1
  /\ (crash = "none" /\ life = "live") => NumDeleted = 0
\* A transport that surfaced a local candidate has been destroyed.
C17_Witness ==
  /\ crash = "none" /\ life = "dead"
  /\ Len(handler_log) >= 2 /\ handler_log[1].type = "OnTransportCandidate"

RECURSIVE CallsUpTo(_)
CallsUpTo(n) == IF n = 0 THEN 0 ELSE auths[n].calls + CallsUpTo(n - 1)
\* How many times SecureAndAuthenticate has been invoked on any authenticator.
NumAuthCalls == CallsUpTo(MaxCalls)

C19_StunRelayFollowNatTraversal ==
  [][(crash' = "none" /\ port_allocator_' # NoAllocator
        /\ port_allocator_' # port_allocator_)
       => /\ config_' = config_
          /\ ~config_.nat_traversal
               => {PORTALLOCATOR_DISABLE_STUN, PORTALLOCATOR_DISABLE_RELAY}
                     \subseteq port_allocator_'.flags
          /\ config_.nat_traversal
               => {PORTALLOCATOR_DISABLE_STUN, PORTALLOCATOR_DISABLE_RELAY}
                     \cap port_allocator_'.flags = {}]_vars
\* Connect has made an allocator from a config with NAT traversal off and a
\* port range other than the default one.
C19_Witness ==
  /\ crash = "none" /\ port_allocator_ # NoAllocator
  /\ ~config_.nat_traversal /\ config_.max_port = 65535
  /\ PORTALLOCATOR_DISABLE_STUN \in port_allocator_.flags
  /\ PORTALLOCATOR_DISABLE_RELAY \in port_allocator_.flags

\* C20: whatever the config, an allocator made by Connect has
\* PORTALLOCATOR_DISABLE_TCP among its flags.
C20_TcpAlwaysDisabled ==
  port_allocator_ # NoAllocator
    => PORTALLOCATOR_DISABLE_TCP \in port_allocator_.flags
\* Connect has made an allocator from a config with NAT traversal on and the
\* widest port range.
C20_Witness ==
  /\ crash = "none" /\ port_allocator_ # NoAllocator
  /\ config_.nat_traversal /\ port_allocator_.max_port = 65535

\* C21: every adapter made by Connect, whatever the config, has a receive
\* buffer of 262144 bytes, a send buffer of 292864 bytes, Nagle off and a 10 ms
\* ack delay, and had them before its connect was started.
C21_AdapterConfigured ==
  \A s \in CallIds :
    adapters[s].st # "none"
      => /\ adapters[s].receive_buffer = 262144
         /\ adapters[s].send_buffer = 292864
         /\ adapters[s].send_buffer = adapters[s].receive_buffer + 30720
         /\ adapters[s].no_delay
         /\ adapters[s].ack_delay = 10
\* Connect has started an adapter on a transport with NAT traversal on and the
\* widest port range.
C21_Witness ==
  /\ crash = "none" /\ config_.nat_traversal /\ config_.max_port = 65535
  /\ \E s \in CallIds : adapters[s].st = "live" /\ adapters[s].tcp = "pending"

\* C22 as claimed, for a build with DCHECKs: a Connect call on an initialized
\* transport returns without the caller's callback having run.
C22_ConnectReturnsBeforeCallback ==
  [][(/\ dcheck_on /\ State = "Initialized"
      /\ \E result \in ConnectResults, act \in CallbackActs :
           ConnectCall(result, act))
       => delivered' = delivered]_vars

\* C23: a step that puts a transport at a free address is a CreateStreamTransport
\* call returning that address, which no transport in use has; the new
\* transport is live and Uninitialized and holds the factory's network manager
\* and socket factory; the factory and every other transport are as before.
C23_CreateStreamTransport ==
  [][\A a \in Addrs :
       (~transports[a].used /\ transports'[a].used)
         => /\ returned' = [call |-> "CreateStreamTransport", value |-> a]
            /\ \A b \in Addrs : transports[b].used => returned'.value # b
            /\ transports'[a].obj.life = "live"
            /\ transports'[a].obj.crash = "none"
            /\ StateOf(transports'[a].obj) = "Uninitialized"
            /\ transports'[a].obj.event_handler_ = NULL
            /\ Owned(transports'[a].obj) = {}
            /\ transports'[a].network_manager_ = factory.network_manager_
            /\ transports'[a].socket_factory_ = factory.socket_factory_
            /\ factory' = factory
            /\ \A b \in Addrs \ {a} : transports'[b] = transports[b]
            /\ UNCHANGED transport_vars]_vars
\* The factory has just made a transport while two others, one of them
\* initialized, were in use.
C23_Witness ==
  /\ returned.call = "CreateStreamTransport"
  /\ \A a \in Addrs : transports[a].used
  /\ StateOf(transports[returned.value].obj) = "Uninitialized"
  /\ \E b \in Addrs : StateOf(transports[b].obj) = "Initialized"

\* C24: CreateDatagramTransport returns null, and the step of the call changes
\* neither the factory nor any transport.
C24_CreateDatagramTransportNull ==
  [][returned'.call = "CreateDatagramTransport"
       => /\ returned'.value = NULL
          /\ returned' # returned
               => /\ factory' = factory
                  /\ transports' = transports
                  /\ UNCHANGED transport_vars]_vars
\* CreateDatagramTransport has been called on a factory with transports in use.
C24_Witness ==
  /\ returned.call = "CreateDatagramTransport"
  /\ \E a, b \in Addrs :
       /\ a # b /\ transports[a].used /\ transports[b].used
       /\ StateOf(transports[b].obj) = "Initialized"

\* This step is the channel's SignalCandidateReady reaching the transport.
CandidateReadyStep ==
  /\ crash = "none" /\ channel_ # NoChannel /\ NumLocal < MaxLocal
  /\ World' = Remains(OnCandidateReady(World, NextLocal))

\* C26: on a transport with an event handler, in Connecting, Authenticating or
\* Connected, a candidate-ready event appends one OnTransportCandidate with the
\* event's candidate to what the handler has received and changes nothing else.
C26_CandidateForwardedOnce ==
  [][(/\ event_handler_ # NULL
      /\ State \in {"Connecting", "Authenticating", "Connected"}
      /\ CandidateReadyStep)
       => /\ handler_log' = Append(handler_log,
                                   [type |-> "OnTransportCandidate",
                                    candidate |-> NextLocal])
          /\ UNCHANGED <<crash, life, destroyed_in, name_, config_, event_handler_,
                         callback_, authenticator_, port_allocator_, channel_,
                         socket_, adapters, auths, delivered>>
          /\ State' = State /\ Owned(World)' = Owned(World)]_vars
\* Two local candidates have reached the handler in order, the second one
\* after the socket was delivered.
C26_Witness ==
  /\ crash = "none" /\ State = "Connected" /\ life = "live"
  /\ Len(handler_log) = 2
  /\ \A i \in 1 .. 2 : handler_log[i] = [type |-> "OnTransportCandidate",
                                        candidate |-> i]

\* The moves of section 4.2, with those a single Connect call makes when the
\* adapter's connect completes inside it.
LifecycleMoves ==
  {<<"Uninitialized", "Initialized">>, <<"Initialized", "Connecting">>,
   <<"Connecting", "Authenticating">>, <<"Authenticating", "Connected">>,
   <<"Connecting", "Failed">>, <<"Authenticating", "Failed">>,
   <<"Initialized", "Authenticating">>, <<"Initialized", "Failed">>}

\* C27 as claimed, for a build with DCHECKs: the lifecycle state of a live,
\* initialized transport changes only along the moves of section 4.2.
C27_LifecycleForwardOnly ==
  [][(dcheck_on /\ name_ # "" /\ crash' = "none" /\ life' = "live"
        /\ State' # State)
       => <<State, State'>> \in LifecycleMoves]_vars

\* The authenticators that hold adapter s.
AuthHolders(s) ==
  {a \in CallIds : auths[a].st \notin {"none", "destroyed"} /\ auths[a].sock = s}

\* How many owners adapter s has: the transport's socket_, an authenticator,
\* the caller.
NumOwners(s) ==
  (IF socket_ = s THEN 1 ELSE 0) + Cardinality(AuthHolders(s))
    + (IF adapters[s].holder = "caller" THEN 1 ELSE 0)

\* C28: a live adapter has exactly one owner: the transport while its connect
\* has not succeeded, an authenticator once it has (socket_ no longer refers to
\* it), the caller once the handshake has succeeded; and an adapter that has
\* left the transport is never in socket_ again.
C28_OneOwner ==
  /\ [](\A s \in CallIds :
          adapters[s].st = "live"
            => /\ NumOwners(s) = 1
               /\ socket_ = s <=> adapters[s].holder = "transport"
               /\ socket_ = s => adapters[s].tcp \in {"none", "pending"}
               /\ AuthHolders(s) # {} => adapters[s].tcp = "ok"
               /\ adapters[s].holder = "caller" => adapters[s].auth = "ok")
  /\ [][\A s \in CallIds :
          (adapters[s].st # "none" /\ socket_ # s) => socket_' # s]_vars
\* The caller holds a delivered socket, and the transport's socket_ is empty.
C28_Witness ==
  /\ crash = "none" /\ life = "live" /\ socket_ = NULL
  /\ \E s \in CallIds : adapters[s].st = "live" /\ adapters[s].holder = "caller"

\* C29: in the step of the Connect call that makes adapter s, a connect result
\* other than pending is handled at once (the handshake is started on OK, the
\* callback run with null otherwise) and a pending one is not handled at all;
\* a result, once handled, is never handled again.
C29_ConnectResultHandledOnce ==
  [][crash' = "none" =>
       \A s \in CallIds :
         /\ (adapters[s].st = "none" /\ adapters'[s].st # "none")
              => /\ adapters'[s].tcp \in {"pending", "ok", "failed"}
                 /\ adapters'[s].tcp = "pending"
                      => /\ socket_' = s /\ adapters'[s].auth = "none"
                         /\ delivered' = delivered /\ callback_' = s
                 /\ adapters'[s].tcp = "ok"
                      => /\ adapters'[s].auth = "pending" /\ socket_' = NULL
                         /\ delivered' = delivered
                 /\ adapters'[s].tcp = "failed"
                      => /\ NotifiedNull /\ adapters'[s].auth = "none"
                         /\ Last(delivered').cb = s
         /\ adapters[s].tcp \in {"ok", "failed"}
              => /\ adapters'[s].tcp = adapters[s].tcp
                 /\ adapters[s].auth = "none" => adapters'[s].auth = "none"
         /\ (adapters[s].tcp = "pending" /\ adapters'[s].tcp = "pending")
              => adapters'[s].auth = "none"]_vars
\* Two Connect calls have had their results handled, one a failure and one a
\* success.
C29_Witness ==
  /\ crash = "none"
  /\ \E s, t \in CallIds :
       /\ s # t
       /\ adapters[s].tcp = "failed" /\ adapters[t].tcp = "ok"

\* C30 as claimed: a call or event callback that reaches a live transport from
\* another context than the one it was constructed on is flagged.
C30_OtherContextFlagged ==
  [][(crash = "none" /\ life = "live" /\ CallOn("other"))
       => crash' = "dcheck"]_vars

\* C30, amended: in a build with DCHECKs, a call or event callback that reaches
\* a live transport from another context ends in a failed DCHECK before the
\* caller's callback or the event handler has been run.
C30_OtherContextFlaggedByDCHECK ==
  [][(dcheck_on /\ crash = "none" /\ life = "live" /\ CallOn("other"))
       => /\ crash' = "dcheck"
          /\ delivered' = delivered /\ handler_log' = handler_log]_vars
\* A DCHECK has failed on a transport that had surfaced a local candidate
\* after its Connect.
C30_Witness ==
  /\ dcheck_on /\ crash = "dcheck"
  /\ handler_log # <<>> /\ delivered = <<>>

\* A connect callback has been run with NULL.
HasFailed == \E i \in DOMAIN delivered : delivered[i].socket = NULL

\* C31 as claimed, for a build with DCHECKs: once a callback has been run with
\* NULL, no further OnTransportCandidate reaches the event handler.
C31_NoCandidateAfterFailure ==
  [][(dcheck_on /\ HasFailed) => NumLocal' = NumLocal]_vars

\* C32 as claimed: while the transport is alive, is_connected() implies that
\* socket_ is empty, so DCHECK(!is_connected() || socket_.get() == NULL) in the
\* destructor cannot fail.
C32_ConnectedHoldsNoSocket ==
  (crash = "none" /\ life = "live" /\ is_connected(World)) => socket_ = NULL

\* This step is the owner deleting the transport at |a|.
DeletedAt(a) ==
  /\ transports[a].used /\ transports[a].obj.crash = "none"
  /\ LET w == Remains(DeleteTransport(transports[a].obj))
     IN transports'[a] = IF Ok(w) THEN NoTransport
                         ELSE [transports[a] EXCEPT !.obj = w]

\* C33 as claimed: deleting a transport the factory made, initialized or not,
\* runs its destructor to the end: event_handler_ is set when it is used.
C33_DestructorFindsEventHandler ==
  [][\A a \in Addrs :
       DeletedAt(a) => Ok(Remains(DeleteTransport(transports[a].obj)))]_vars

\* This step runs a connect callback that deletes the transport.
DeleteInCallbackStep ==
  /\ Len(delivered') > Len(delivered)
  /\ \/ \E result \in ConnectResults : ConnectCall(result, "delete_transport")
     \/ \E s \in CallIds, result \in Completions :
          TcpCompletion(s, result, "delete_transport")
     \/ \E a \in CallIds, error \in Completions, hands_over \in BOOLEAN :
          AuthenticationCompletion(a, error, hands_over, "delete_transport")

\* C34 as claimed: when the connect callback deletes the transport, the
\* transport touches none of its members after the callback has returned.
C34_NoAccessAfterDeleteInCallback ==
  [][DeleteInCallbackStep => crash' # "use_after_free"]_vars

\* C35 as claimed: once a delivered socket has been destroyed, the transport
\* is deleted, whether the caller released the socket later or while still
\* inside the callback that delivered it.
C35_ReleasedSocketDeletesTransport ==
  (/\ crash = "none" /\ ConnectedOnce
   /\ \E i \in DOMAIN delivered :
        /\ delivered[i].socket # NULL
        /\ adapters[delivered[i].socket].st = "destroyed")
    => life = "dead"

\* C36 as claimed, for a build with DCHECKs: on an initialized transport no
\* step handles a successful connect completion with authenticator_ null.
C36_AuthenticatorPresentAtTcpOk ==
  [][(dcheck_on /\ name_ # "") => crash' # "null_deref: authenticator_"]_vars

\* C37 as claimed: no step runs the channel-destroyed handler on a transport
\* that is already destroyed, and none deletes a transport twice.
C37_NoHandlerAfterDestruction ==
  [][(crash = "none" /\ life = "dead")
       => crash' \notin {"use_after_free", "double_delete"}]_vars

\* This step takes <<o, n>> away: its file or its row in the tracker database.
Deleted(db) ==
  \/ db \in tracker.files /\ db \notin tracker'.files
  \/ db \in tracker.databases_table_ /\ db \notin tracker'.databases_table_

StruckOffNow(cb) ==
  Members(tracker.deletion_callbacks_[cb])
    \ (IF cb \in DOMAIN tracker'.deletion_callbacks_
         THEN Members(tracker'.deletion_callbacks_[cb]) ELSE {})

\* How many times the last call ran cb.
RunsOf(t, cb) == Cardinality({i \in DOMAIN t.completed : t.completed[i].callback = cb})

\* C39 as claimed: a registered callback is run in the step that empties its
\* pending set, once, with OK, and is unregistered by it; no other callback is
\* run; a database is struck off a pending set only when it is closed and
\* deleted, file and row; and with no connection left nothing is scheduled and
\* no callback is registered.
C39_CallbackOnceAfterDeletion ==
  /\ [][tracker' # tracker =>
          /\ \A i \in DOMAIN tracker'.completed :
               /\ tracker'.completed[i].rv = "OK"
               /\ tracker'.completed[i].callback \in DOMAIN tracker.deletion_callbacks_
          /\ \A cb \in DOMAIN tracker.deletion_callbacks_ :
               /\ RunsOf(tracker', cb) =
                    IF cb \in DOMAIN tracker'.deletion_callbacks_ THEN 0 ELSE 1
               /\ \A db \in StruckOffNow(cb) :
                    /\ tracker'.database_connections_[db] = 0
                    /\ db \notin tracker'.files
                    /\ db \notin tracker'.databases_table_]_vars
  /\ [](IsEmpty(tracker.database_connections_)
          => /\ DOMAIN tracker.dbs_to_be_deleted_ = {}
             /\ DOMAIN tracker.deletion_callbacks_ = {})
====
